---------------------------- MODULE Spec2Model ----------------------------
(***************************************************************************)
(* Model of watcher.backup.py: the note watcher that sends each new .txt   *)
(* file to a text model, recovers JSON from the reply (strip_code_fences,  *)
(* extract_balanced_block, extract_first_json, json.loads), repairs it at  *)
(* most max_retries times (process_text / call_model) and inserts one      *)
(* record per section into the collection (Handler.on_created).            *)
(*                                                                         *)
(* A text is a sequence of one-character strings.  Python's None is the    *)
(* value None below, which is no text.                                     *)
(***************************************************************************)
EXTENDS Integers, Sequences, FiniteSets, TLC

None == <<"None">>

(***************************************************************************)
(* Characters and the str methods the program uses.                        *)
(***************************************************************************)
Whitespace == {" ", "\n", "\t", "\r"}

Digits == {"0", "1", "2", "3", "4", "5", "6", "7", "8", "9"}

HexDigits == Digits \cup {"a", "b", "c", "d", "e", "f", "A", "B", "C", "D", "E", "F"}

Min(S) == CHOOSE x \in S : \A y \in S : x <= y

Max(S) == CHOOSE x \in S : \A y \in S : x >= y

\* str.lstrip()
lstrip(s) ==
    LET keep == {i \in 1..Len(s) : s[i] \notin Whitespace}
    IN  IF keep = {} THEN <<>> ELSE SubSeq(s, Min(keep), Len(s))

\* str.strip()
strip(s) ==
    LET keep == {i \in 1..Len(s) : s[i] \notin Whitespace}
    IN  IF keep = {} THEN <<>> ELSE SubSeq(s, Min(keep), Max(keep))

\* str.find(ch) + 1: the 1-based index of the first ch, 0 when there is none
find(s, ch) ==
    LET at == {i \in 1..Len(s) : s[i] = ch}
    IN  IF at = {} THEN 0 ELSE Min(at)

\* whether the characters of lit stand in s from index i on
StartsAt(s, i, lit) ==
    /\ i >= 1
    /\ i + Len(lit) - 1 <= Len(s)
    /\ \A k \in 1..Len(lit) : s[i + k - 1] = lit[k]

UpperLetters ==
    <<"A", "B", "C", "D", "E", "F", "G", "H", "I", "J", "K", "L", "M",
      "N", "O", "P", "Q", "R", "S", "T", "U", "V", "W", "X", "Y", "Z">>

LowerLetters ==
    <<"a", "b", "c", "d", "e", "f", "g", "h", "i", "j", "k", "l", "m",
      "n", "o", "p", "q", "r", "s", "t", "u", "v", "w", "x", "y", "z">>

LowerCh(c) ==
    LET at == {i \in 1..Len(UpperLetters) : UpperLetters[i] = c}
    IN  IF at = {} THEN c ELSE LowerLetters[Min(at)]

\* str.lower()
lower(s) == [i \in 1..Len(s) |-> LowerCh(s[i])]

\* str.endswith(suffix)
endswith(s, suffix) ==
    /\ Len(suffix) <= Len(s)
    /\ SubSeq(s, Len(s) - Len(suffix) + 1, Len(s)) = suffix

(***************************************************************************)
(* strip_code_fences: re.search of the pattern                             *)
(*     fence (?:json)? \s* ([\s\S]*?) fence       with re.IGNORECASE       *)
(* where fence is three backticks.  A match starts at the leftmost fence   *)
(* that has a later fence at or after the end of its optional tag and      *)
(* whitespace; the lazy group ends at the first such fence.  Giving back   *)
(* the greedy tag or whitespace cannot create a match: the characters      *)
(* given back are letters or whitespace, so no fence starts among them.    *)
(***************************************************************************)
\* the backtick character, which a TLA+ string literal cannot hold, by name
Backtick == "BACKTICK"

Fence == <<Backtick, Backtick, Backtick>>

JsonTag == <<"j", "s", "o", "n">>

\* index after the optional tag "json" (any letter case) that follows a fence at p
AfterTag(t, p) ==
    IF p + 6 <= Len(t) /\ lower(SubSeq(t, p + 3, p + 6)) = JsonTag
    THEN p + 7 ELSE p + 3

\* index of the first non-whitespace character at or after i (Len(t)+1 if none)
SkipWs(t, i) ==
    LET stop == {k \in i..Len(t) : t[k] \notin Whitespace}
    IN  IF stop = {} THEN Max({i, Len(t) + 1}) ELSE Min(stop)

\* index of the first fence at or after c, 0 when there is none
CloseAt(t, c) ==
    LET at == {q \in c..Len(t) : StartsAt(t, q, Fence)}
    IN  IF at = {} THEN 0 ELSE Min(at)

GroupStart(t, p) == SkipWs(t, AfterTag(t, p))

\* the fence pattern with a greedy group: the content runs to the last fence
strip_code_fences_greedy(text) ==
    LET opens == {p \in 1..Len(text) :
                    StartsAt(text, p, Fence) /\ CloseAt(text, GroupStart(text, p)) # 0}
    IN  IF opens = {} THEN text
        ELSE LET p == Min(opens)
                 c == GroupStart(text, p)
                 q == Max({k \in c..Len(text) : StartsAt(text, k, Fence)})
             IN  strip(SubSeq(text, c, q - 1))

strip_code_fences(text) ==
    LET opens == {p \in 1..Len(text) :
                    StartsAt(text, p, Fence) /\ CloseAt(text, GroupStart(text, p)) # 0}
    IN  IF opens = {} THEN text
        ELSE LET p == Min(opens)
                 c == GroupStart(text, p)
                 q == CloseAt(text, c)
             IN  strip(SubSeq(text, c, q - 1))

(***************************************************************************)
(* extract_balanced_block.  LoopBody is the body of the for statement on   *)
(* the locals depth, in_str, esc and quote, with ret the index i at which  *)
(* the function returned text[start:i+1] (0 while it has not); Loop runs   *)
(* the body over text[lo..hi] in order, halving the range.                 *)
(***************************************************************************)
Quotes == {"\"", "'"}

LoopBody(st, ch, i, open_ch, close_ch) ==
    IF st.in_str
    THEN IF st.esc THEN [st EXCEPT !.esc = FALSE]
         ELSE IF ch = "\\" THEN [st EXCEPT !.esc = TRUE]
         ELSE IF ch = st.quote THEN [st EXCEPT !.in_str = FALSE]
         ELSE st
    ELSE IF ch \in Quotes THEN [st EXCEPT !.in_str = TRUE, !.quote = ch]
         ELSE IF ch = open_ch THEN [st EXCEPT !.depth = st.depth + 1]
         ELSE IF ch = close_ch
         THEN [st EXCEPT !.depth = st.depth - 1,
                         !.ret = IF st.depth - 1 = 0 THEN i ELSE 0]
         ELSE st

RECURSIVE Loop(_, _, _, _, _, _)
Loop(text, st, lo, hi, open_ch, close_ch) ==
    IF st.ret # 0 \/ lo > hi THEN st
    ELSE IF lo = hi THEN LoopBody(st, text[lo], lo, open_ch, close_ch)
    ELSE LET mid == (lo + hi) \div 2
         IN  Loop(text, Loop(text, st, lo, mid, open_ch, close_ch), mid + 1, hi,
                  open_ch, close_ch)

\* the scan giving back the rest of the text when the block never closes
extract_balanced_block_or_tail(text, open_ch, close_ch) ==
    LET start == find(text, open_ch)
        locals == [depth |-> 0, in_str |-> FALSE, esc |-> FALSE, quote |-> "", ret |-> 0]
    IN  IF start = 0 THEN None
        ELSE LET end == Loop(text, locals, start, Len(text), open_ch, close_ch)
             IN  IF end.ret = 0 THEN SubSeq(text, start, Len(text))
                 ELSE SubSeq(text, start, end.ret)

extract_balanced_block(text, open_ch, close_ch) ==
    LET start == find(text, open_ch)
        locals == [depth |-> 0, in_str |-> FALSE, esc |-> FALSE, quote |-> "", ret |-> 0]
    IN  IF start = 0 THEN None
        ELSE LET end == Loop(text, locals, start, Len(text), open_ch, close_ch)
             IN  IF end.ret = 0 THEN None ELSE SubSeq(text, start, end.ret)

\* Python's `a or b` on an optional string: b when a is None or empty
OrElse(a, b) == IF a = None \/ a = <<>> THEN b ELSE a

\* the extraction that tries the object first
extract_first_json_object_first(text) ==
    LET cleaned == lstrip(strip_code_fences(text))
    IN  OrElse(extract_balanced_block(cleaned, "{", "}"),
               extract_balanced_block(cleaned, "[", "]"))

extract_first_json(text) ==
    LET cleaned == lstrip(strip_code_fences(text))
    IN  OrElse(extract_balanced_block(cleaned, "[", "]"),
               extract_balanced_block(cleaned, "{", "}"))

(***************************************************************************)
(* json.loads.  A parsed value is a record [t, s, a]: t is its JSON type,  *)
(* s the characters of a string (decoded) or of a number or literal (as    *)
(* written), a the items of an array or the [k, v] pairs of an object in   *)
(* dict order.  A parse step returns [ok, v, end]; ok = FALSE stands for   *)
(* json.JSONDecodeError.                                                   *)
(***************************************************************************)
JStr(chars) == [t |-> "str", s |-> chars, a |-> <<>>]

JNum(chars) == [t |-> "num", s |-> chars, a |-> <<>>]

JLit(chars) == [t |-> "lit", s |-> chars, a |-> <<>>]

JArr(items) == [t |-> "arr", s |-> <<>>, a |-> items]

JObj(pairs) == [t |-> "obj", s |-> <<>>, a |-> pairs]

JNull == JLit(<<"n", "u", "l", "l">>)

DecodeError == [ok |-> FALSE, v |-> JNull, end |-> 0]

Parsed(v, end) == [ok |-> TRUE, v |-> v, end |-> end]

\* dict(pairs): a repeated key keeps its first position and takes the last value
RECURSIVE dict(_, _)
dict(pairs, acc) ==
    IF pairs = <<>> THEN acc
    ELSE LET p == Head(pairs)
             at == {i \in 1..Len(acc) : acc[i].k = p.k}
         IN  dict(Tail(pairs),
                  IF at = {} THEN Append(acc, p)
                  ELSE [acc EXCEPT ![Min(at)] = p])

\* the characters a backslash may escape, and what each stands for
Unescape(c) ==
    CASE c = "\"" -> "\""
      [] c = "\\" -> "\\"
      [] c = "/"  -> "/"
      [] c = "b"  -> "BACKSPACE"
      [] c = "f"  -> "\f"
      [] c = "n"  -> "\n"
      [] c = "r"  -> "\r"
      [] c = "t"  -> "\t"
      [] OTHER    -> ""

\* the character \uXXXX stands for, by its code
UChar(hex) == "U+" \o LowerCh(hex[1]) \o LowerCh(hex[2]) \o LowerCh(hex[3]) \o LowerCh(hex[4])

\* py_scanstring from the index after the opening quote (strict mode)
RECURSIVE scanstring(_, _, _)
scanstring(s, i, acc) ==
    IF i > Len(s) THEN DecodeError
    ELSE IF s[i] = "\"" THEN Parsed(JStr(acc), i + 1)
    ELSE IF s[i] = "\\"
    THEN IF i + 1 > Len(s) THEN DecodeError
         ELSE IF s[i + 1] = "u"
         THEN IF i + 5 <= Len(s) /\ \A k \in (i + 2)..(i + 5) : s[k] \in HexDigits
              THEN scanstring(s, i + 6, Append(acc, UChar(SubSeq(s, i + 2, i + 5))))
              ELSE DecodeError
         ELSE IF Unescape(s[i + 1]) # ""
         THEN scanstring(s, i + 2, Append(acc, Unescape(s[i + 1])))
         ELSE DecodeError
    ELSE IF s[i] \in {"\n", "\t", "\r", "\f"} THEN DecodeError
    ELSE scanstring(s, i + 1, Append(acc, s[i]))

\* index of the first non-digit at or after i
DigitRunEnd(s, i) ==
    LET stop == {k \in i..Len(s) : s[k] \notin Digits}
    IN  IF stop = {} THEN Max({i, Len(s) + 1}) ELSE Min(stop)

IsDigitAt(s, i) == i >= 1 /\ i <= Len(s) /\ s[i] \in Digits

IsCharAt(s, i, set) == i >= 1 /\ i <= Len(s) /\ s[i] \in set

\* NUMBER_RE.match(s, i): the index after the number that starts at i, 0 if none
match_number(s, i) ==
    LET j0 == IF IsCharAt(s, i, {"-"}) THEN i + 1 ELSE i
    IN  IF ~IsDigitAt(s, j0) THEN 0
        ELSE LET j1 == IF s[j0] = "0" THEN j0 + 1 ELSE DigitRunEnd(s, j0)
                 j2 == IF IsCharAt(s, j1, {"."}) /\ IsDigitAt(s, j1 + 1)
                       THEN DigitRunEnd(s, j1 + 1) ELSE j1
                 k  == IF IsCharAt(s, j2 + 1, {"-", "+"}) THEN j2 + 2 ELSE j2 + 1
                 j3 == IF IsCharAt(s, j2, {"e", "E"}) /\ IsDigitAt(s, k)
                       THEN DigitRunEnd(s, k) ELSE j2
             IN  j3

Literals ==
    { <<"n", "u", "l", "l">>, <<"t", "r", "u", "e">>, <<"f", "a", "l", "s", "e">>,
      <<"N", "a", "N">>, <<"I", "n", "f", "i", "n", "i", "t", "y">>,
      <<"-", "I", "n", "f", "i", "n", "i", "t", "y">> }

RECURSIVE scan_once(_, _)
RECURSIVE JSONObject(_, _, _)
RECURSIVE JSONArray(_, _, _)

\* py_make_scanner._scan_once
scan_once(s, idx) ==
    IF idx > Len(s) THEN DecodeError
    ELSE IF s[idx] = "\"" THEN scanstring(s, idx + 1, <<>>)
    ELSE IF s[idx] = "{"
    THEN LET e == SkipWs(s, idx + 1)
         IN  IF IsCharAt(s, e, {"}"}) THEN Parsed(JObj(<<>>), e + 1)
             ELSE IF IsCharAt(s, e, {"\""}) THEN JSONObject(s, e + 1, <<>>)
             ELSE DecodeError
    ELSE IF s[idx] = "["
    THEN LET e == SkipWs(s, idx + 1)
         IN  IF IsCharAt(s, e, {"]"}) THEN Parsed(JArr(<<>>), e + 1)
             ELSE JSONArray(s, e, <<>>)
    ELSE IF s[idx] \in {"n", "t", "f"} /\ \E l \in Literals : StartsAt(s, idx, l)
    THEN LET l == CHOOSE l \in Literals : StartsAt(s, idx, l)
         IN  Parsed(JLit(l), idx + Len(l))
    ELSE IF match_number(s, idx) # 0
    THEN Parsed(JNum(SubSeq(s, idx, match_number(s, idx) - 1)), match_number(s, idx))
    ELSE IF s[idx] \in {"N", "I", "-"} /\ \E l \in Literals : StartsAt(s, idx, l)
    THEN LET l == CHOOSE l \in Literals : StartsAt(s, idx, l)
         IN  Parsed(JLit(l), idx + Len(l))
    ELSE DecodeError

\* JSONObject's loop, from the index after the opening quote of a key
JSONObject(s, i, pairs) ==
    LET key == scanstring(s, i, <<>>)
    IN  IF ~key.ok THEN DecodeError
        ELSE LET c == SkipWs(s, key.end)
             IN  IF ~IsCharAt(s, c, {":"}) THEN DecodeError
                 ELSE LET val == scan_once(s, SkipWs(s, c + 1))
                      IN  IF ~val.ok THEN DecodeError
                          ELSE LET more == Append(pairs, [k |-> key.v.s, v |-> val.v])
                                   e == SkipWs(s, val.end)
                               IN  IF IsCharAt(s, e, {"}"})
                                   THEN Parsed(JObj(dict(more, <<>>)), e + 1)
                                   ELSE IF ~IsCharAt(s, e, {","}) THEN DecodeError
                                   ELSE LET q == SkipWs(s, e + 1)
                                        IN  IF IsCharAt(s, q, {"\""})
                                            THEN JSONObject(s, q + 1, more)
                                            ELSE DecodeError

\* JSONArray's loop, from the index of the next item
JSONArray(s, i, items) ==
    LET val == scan_once(s, i)
    IN  IF ~val.ok THEN DecodeError
        ELSE LET more == Append(items, val.v)
                 e == SkipWs(s, val.end)
             IN  IF IsCharAt(s, e, {"]"}) THEN Parsed(JArr(more), e + 1)
                 ELSE IF ~IsCharAt(s, e, {","}) THEN DecodeError
                 ELSE JSONArray(s, SkipWs(s, e + 1), more)

\* JSONDecoder.decode: one value, whitespace around it, nothing after it
json_loads(s) ==
    LET r == scan_once(s, SkipWs(s, 1))
    IN  IF ~r.ok THEN DecodeError
        ELSE IF SkipWs(s, r.end) # Len(s) + 1 THEN DecodeError
        ELSE r

(***************************************************************************)
(* The texts the backend answers with: the scenarios of the spec and the   *)
(* shapes the validation branches on.                                      *)
(***************************************************************************)
\* a fenced one-element array
FencedArray ==
    <<Backtick, Backtick, Backtick, "j", "s", "o", "n", "\n", "[", "{",
      "\"", "t", "i", "t", "l", "e", "\"", ":", "\"", "I", "n", "t", "r",
      "o", "\"", ",", "\"", "s", "u", "m", "m", "a", "r", "y", "\"", ":",
      "\"", "s", "\"", ",", "\"", "t", "a", "g", "s", "\"", ":", "[", "\"",
      "a", "\"", "]", ",", "\"", "c", "o", "n", "t", "e", "n", "t", "\"",
      ":", "\"", "I", "n", "t", "r", "o", ".", "\"", "}", "]", "\n",
      Backtick, Backtick, Backtick>>

\* prose, then an array and an object that never close
Truncated ==
    <<"S", "u", "r", "e", "!", " ", "[", "{", "\"", "t", "i", "t", "l",
      "e", "\"", ":", " ", "\"", "X", "\"">>

\* one section object, no outer array
BareObject ==
    <<"{", "\"", "t", "i", "t", "l", "e", "\"", ":", "\"", "T", "\"", ",",
      "\"", "s", "u", "m", "m", "a", "r", "y", "\"", ":", "\"", "\"", ",",
      "\"", "t", "a", "g", "s", "\"", ":", "[", "]", ",", "\"", "c", "o",
      "n", "t", "e", "n", "t", "\"", ":", "\"", "c", "\"", "}">>

\* the empty array
EmptyArray ==
    <<"[", "]">>

\* one object with no array inside and three fields missing
TitleOnly ==
    <<"{", "\"", "t", "i", "t", "l", "e", "\"", ":", "\"", "T", "\"", "}">>

\* two section objects, whitespace around
TwoSections ==
    <<" ", "[", "{", "\"", "t", "i", "t", "l", "e", "\"", ":", "\"", "A",
      "\"", "}", ",", "{", "\"", "t", "i", "t", "l", "e", "\"", ":", "\"",
      "B", "\"", "}", "]", "\n">>

\* an array whose second item is no object
ObjectThenNumber ==
    <<"[", "{", "\"", "t", "i", "t", "l", "e", "\"", ":", "\"", "A", "\"",
      "}", ",", "1", "]">>

\* a number for title and null for tags
WrongTypes ==
    <<"[", "{", "\"", "t", "i", "t", "l", "e", "\"", ":", "1", ",", "\"",
      "t", "a", "g", "s", "\"", ":", "n", "u", "l", "l", "}", "]">>

\* no bracket at all
Prose ==
    <<"o", "o", "p", "s">>

\* an array that never closes around a closed object
UnclosedArray ==
    <<"[", "{", "\"", "t", "i", "t", "l", "e", "\"", ":", "\"", "X", "\"",
      "}">>

\* prose around a balanced block that is no JSON
BadBlock ==
    <<"o", "k", " ", "[", "x", "]", "!">>

\* a JSON number
Scalar ==
    <<"1">>

Responses ==
    { FencedArray,
      Truncated,
      BareObject,
      EmptyArray,
      TitleOnly,
      TwoSections,
      ObjectThenNumber,
      WrongTypes,
      Prose,
      BadBlock,
      Scalar }

\* the answers to a fix-mode request: two that do not parse, two that do
FixResponses ==
    { Truncated,
      BadBlock,
      TwoSections,
      Scalar }

\* the content of a new file
FileText ==
    <<"I", "n", "t", "r", "o", ".", " ", "B", "o", "d", "y", ".">>

NotePath == <<"/", "w", "/", "n", "o", "t", "e", ".", "t", "x", "t">>

UpperPath == <<"/", "w", "/", "B", ".", "T", "X", "T">>

MixedPath == <<"/", "w", "/", "c", ".", "T", "x", "t">>

OtherPath == <<"/", "w", "/", "a", ".", "m", "d">>

DirPath == <<"/", "w", "/", "d", ".", "t", "x", "t">>

(***************************************************************************)
(* Bounds of the model.                                                    *)
(***************************************************************************)
\* creation events and direct calls handled in one behaviour
MaxEvents == 2

\* the largest max_retries a direct call of process_text is given
MaxRetries == 2

\* the default of process_text's parameter max_retries
DefaultMaxRetries == 1

(***************************************************************************)
(* The state: the collection, the locals of the running process_text, and  *)
(* what one run has done so far (its model calls, its output lines).       *)
(***************************************************************************)
VARIABLES
    collection,     \* the documents insert_one has stored, in order
    clock,          \* time.time()
    handled,        \* events and direct calls begun so far
    pc,             \* where the program is: "idle", "generate", "validate",
                    \* "fix", "insert"
    caller,         \* who called process_text: "handler" or "direct"
    filename,       \* process_text's parameter
    text,           \* process_text's parameter
    max_retries,    \* process_text's parameter
    raw,            \* the last response of call_model
    attempt,        \* the loop variable of the retry loop
    candidate,      \* the string last given to json.loads
    sections,       \* the parsed sections
    idx,            \* the position of the insert loop in sections (1-based)
    calls,          \* the requests this run has posted: [mode, data]
    replies,        \* the responses call_model has returned in this run
    tried,          \* the insert_one calls of this run: [i, ok]
    printed,        \* the lines this event has printed
    outcome,        \* how the last event ended: "ignored", "unreadable",
                    \* "running", "done" (the INFO line), "failed" (no JSON),
                    \* "error" (the handler caught an exception), "raised"
                    \* (a direct caller received it)
    base,           \* Len(collection) when this run began
    previous,       \* how the event before this one ended
    input,          \* the argument of the helper under study (SpecHelpers)
    output          \* the last helper applied and its result (SpecHelpers)

procVars ==
    <<collection, clock, handled, pc, caller, filename, text, max_retries, raw,
      attempt, candidate, sections, idx, calls, replies, tried, printed, outcome,
      base, previous>>

helperVars == <<input, output>>

vars == <<procVars, helperVars>>

NoOutput == [fn |-> "none", res |-> <<>>]

InitProc ==
    /\ collection = <<>>
    /\ clock = 0
    /\ handled = 0
    /\ pc = "idle"
    /\ caller = "none"
    /\ filename = <<>>
    /\ text = <<>>
    /\ max_retries = DefaultMaxRetries
    /\ raw = <<>>
    /\ attempt = 0
    /\ candidate = <<>>
    /\ sections = <<>>
    /\ idx = 0
    /\ calls = <<>>
    /\ replies = <<>>
    /\ tried = <<>>
    /\ printed = <<>>
    /\ outcome = "none"
    /\ base = 0
    /\ previous = "none"

Init ==
    /\ InitProc
    /\ input = <<>>
    /\ output = NoOutput

(***************************************************************************)
(* Handler.on_created and the entry of process_text.                       *)
(***************************************************************************)
\* os.path.basename
basename(path) ==
    LET slashes == {i \in 1..Len(path) : path[i] = "/"}
    IN  IF slashes = {} THEN path ELSE SubSeq(path, Max(slashes) + 1, Len(path))

DotTxt == <<".", "t", "x", "t">>

\* the events the observer delivers: a path, whether it is a directory,
\* whether the file can be opened and read
Events ==
    { [src_path |-> NotePath,  is_directory |-> FALSE, readable |-> TRUE],
      [src_path |-> NotePath,  is_directory |-> FALSE, readable |-> FALSE],
      [src_path |-> UpperPath, is_directory |-> FALSE, readable |-> TRUE],
      [src_path |-> MixedPath, is_directory |-> FALSE, readable |-> FALSE],
      [src_path |-> OtherPath, is_directory |-> FALSE, readable |-> TRUE],
      [src_path |-> DirPath,   is_directory |-> TRUE,  readable |-> FALSE] }

\* the suffix compared without lower(): only .txt in small letters passes
Accepts_case_sensitive(event) ==
    /\ ~event.is_directory
    /\ endswith(event.src_path, DotTxt)

\* whether on_created goes on to open the file
Accepts(event) ==
    /\ ~event.is_directory
    /\ endswith(lower(event.src_path), DotTxt)

\* the locals of a process_text call that has just been entered
Enter(who, name, content, retries) ==
    /\ pc' = "generate"
    /\ caller' = who
    /\ filename' = name
    /\ text' = content
    /\ max_retries' = retries
    /\ raw' = <<>>
    /\ attempt' = 0
    /\ candidate' = <<>>
    /\ sections' = <<>>
    /\ idx' = 0
    /\ calls' = <<>>
    /\ replies' = <<>>
    /\ tried' = <<>>
    /\ printed' = <<>>
    /\ outcome' = "running"
    /\ base' = Len(collection)

\* on_created for an event it ignores: a directory, or no .txt suffix
on_created_ignored(event) ==
    /\ pc = "idle"
    /\ handled < MaxEvents
    /\ ~Accepts(event)
    /\ handled' = handled + 1
    /\ outcome' = "ignored"
    /\ printed' = <<>>
    /\ calls' = <<>>
    /\ replies' = <<>>
    /\ tried' = <<>>
    /\ sections' = <<>>
    /\ base' = Len(collection)
    /\ UNCHANGED <<collection, clock, pc, caller, filename, text, max_retries, raw,
                   attempt, candidate, idx, helperVars>>
    /\ previous' = outcome

\* on_created when open() or read() raises: the except clause prints
on_created_unreadable(event) ==
    /\ pc = "idle"
    /\ handled < MaxEvents
    /\ Accepts(event)
    /\ ~event.readable
    /\ handled' = handled + 1
    /\ outcome' = "unreadable"
    /\ printed' = <<[level |-> "ERROR", what |-> "Failed to process",
                     file |-> basename(event.src_path), n |-> 0]>>
    /\ calls' = <<>>
    /\ replies' = <<>>
    /\ tried' = <<>>
    /\ sections' = <<>>
    /\ filename' = basename(event.src_path)
    /\ base' = Len(collection)
    /\ UNCHANGED <<collection, clock, pc, caller, text, max_retries, raw,
                   attempt, candidate, idx, helperVars>>
    /\ previous' = outcome

\* on_created run by a thread of its own: it does not wait for the run in
\* progress to end
on_created_read_in_new_thread(event) ==
    /\ handled < MaxEvents
    /\ Accepts(event)
    /\ event.readable
    /\ handled' = handled + 1
    /\ Enter("handler", basename(event.src_path), FileText, DefaultMaxRetries)
    /\ UNCHANGED <<collection, clock, helperVars>>
    /\ previous' = outcome

\* on_created up to the call process_text(text, filename)
on_created_read(event) ==
    /\ pc = "idle"
    /\ handled < MaxEvents
    /\ Accepts(event)
    /\ event.readable
    /\ handled' = handled + 1
    /\ Enter("handler", basename(event.src_path), FileText, DefaultMaxRetries)
    /\ UNCHANGED <<collection, clock, helperVars>>
    /\ previous' = outcome

\* a call process_text(text, filename, max_retries) from outside the handler
process_text_called(retries) ==
    /\ pc = "idle"
    /\ handled < MaxEvents
    /\ handled' = handled + 1
    /\ Enter("direct", basename(NotePath), FileText, retries)
    /\ UNCHANGED <<collection, clock, helperVars>>
    /\ previous' = outcome

(***************************************************************************)
(* How a run of process_text ends.                                         *)
(***************************************************************************)
\* the exception not caught by on_created: it ends the thread that handles
\* the events
Raise_uncaught(lines) ==
    /\ pc' = "crashed"
    /\ outcome' = "raised"
    /\ printed' = lines
    /\ UNCHANGED previous

\* an exception leaves process_text: the handler's except clause prints it,
\* a direct caller receives it
Raise(lines) ==
    /\ pc' = "idle"
    /\ outcome' = IF caller = "handler" THEN "error" ELSE "raised"
    /\ printed' = IF caller = "handler"
                  THEN Append(lines, [level |-> "ERROR", what |-> "Failed to process",
                                      file |-> filename, n |-> 0])
                  ELSE lines
    /\ UNCHANGED previous

(***************************************************************************)
(* call_model and the retry loop.                                          *)
(***************************************************************************)
\* what call_model returns for the body the backend sent:
\* (resp.json().get("response") or "").strip()
call_model(response) == strip(response)

\* raw = call_model(prompt_text), the backend answering
generate_returns(response) ==
    /\ pc = "generate"
    /\ calls' = Append(calls, [mode |-> "generate", data |-> text])
    /\ raw' = call_model(response)
    /\ replies' = Append(replies, call_model(response))
    /\ pc' = "validate"
    /\ UNCHANGED <<collection, clock, handled, caller, filename, text, max_retries,
                   attempt, candidate, sections, idx, tried, printed, outcome, base,
                   helperVars>>
    /\ UNCHANGED previous

\* raw = call_model(prompt_text), requests.post or raise_for_status raising
generate_raises ==
    /\ pc = "generate"
    /\ calls' = Append(calls, [mode |-> "generate", data |-> text])
    /\ Raise(printed)
    /\ UNCHANGED <<collection, clock, handled, caller, filename, text, max_retries,
                   raw, attempt, candidate, sections, idx, replies, tried, base,
                   helperVars>>

\* the candidate cut from the first bracket on when no block is balanced
Candidate_from_first_bracket(r) ==
    LET cleaned == lstrip(strip_code_fences(r))
        at == {i \in 1..Len(cleaned) : cleaned[i] \in {"[", "{"}}
    IN  OrElse(extract_first_json(r),
               IF at = {} THEN strip(r) ELSE SubSeq(cleaned, Min(at), Len(cleaned)))

\* candidate = extract_first_json(raw) or raw.strip()
Candidate(r) == OrElse(extract_first_json(r), strip(r))

\* sections = json.loads(candidate), wrapped when it is no list
Sections(v) == IF v.t = "arr" THEN v.a ELSE <<v>>

\* the retry test taken one attempt too far
attempts_remain_inclusive(n, limit) == n <= limit

\* `if attempt < max_retries`: whether a failed parse is followed by a fix call
attempts_remain(n, limit) == n < limit

\* the pass whose last failure lacks its return: the insert loop follows
validate_without_return ==
    /\ pc = "validate"
    /\ \E cand \in {Candidate(raw)} : \E r \in {json_loads(cand)} :
           /\ candidate' = cand
           /\ IF r.ok
              THEN /\ sections' = Sections(r.v)
                   /\ idx' = 1
                   /\ pc' = "insert"
                   /\ UNCHANGED <<printed, outcome>>
              ELSE IF attempts_remain(attempt, max_retries)
              THEN /\ pc' = "fix"
                   /\ printed' = Append(printed,
                         [level |-> "WARN", what |-> "JSON parse failed, retrying",
                          file |-> filename, n |-> attempt + 1])
                   /\ UNCHANGED <<sections, idx, outcome>>
              ELSE /\ pc' = "insert"
                   /\ idx' = 1
                   /\ printed' = Append(printed,
                         [level |-> "ERROR", what |-> "Failed to parse AI JSON",
                          file |-> filename, n |-> 0])
                   /\ UNCHANGED <<sections, outcome>>
    /\ UNCHANGED <<collection, clock, handled, caller, filename, text, max_retries,
                   raw, attempt, calls, replies, tried, base, helperVars>>
    /\ UNCHANGED previous

\* the pass that takes a value that is no list of objects for a parse
\* failure and asks for a repair
validate_rejecting_non_sections ==
    /\ pc = "validate"
    /\ \E cand \in {Candidate(raw)} : \E r \in {json_loads(cand)} :
           /\ candidate' = cand
           /\ IF r.ok /\ \A k \in 1..Len(Sections(r.v)) : Sections(r.v)[k].t = "obj"
              THEN /\ sections' = Sections(r.v)
                   /\ idx' = 1
                   /\ pc' = "insert"
                   /\ UNCHANGED <<printed, outcome>>
              ELSE IF attempts_remain(attempt, max_retries)
              THEN /\ pc' = "fix"
                   /\ printed' = Append(printed,
                         [level |-> "WARN", what |-> "JSON parse failed, retrying",
                          file |-> filename, n |-> attempt + 1])
                   /\ UNCHANGED <<sections, idx, outcome>>
              ELSE /\ pc' = "idle"
                   /\ outcome' = "failed"
                   /\ printed' = Append(printed,
                         [level |-> "ERROR", what |-> "Failed to parse AI JSON",
                          file |-> filename, n |-> 0])
                   /\ UNCHANGED <<sections, idx>>
    /\ UNCHANGED <<collection, clock, handled, caller, filename, text, max_retries,
                   raw, attempt, calls, replies, tried, base, helperVars>>
    /\ UNCHANGED previous

\* one pass of the retry loop's body up to break, the fix call or return
validate ==
    /\ pc = "validate"
    /\ \E cand \in {Candidate(raw)} : \E r \in {json_loads(cand)} :
           /\ candidate' = cand
           /\ IF r.ok
              THEN /\ sections' = Sections(r.v)
                   /\ idx' = 1
                   /\ pc' = "insert"
                   /\ UNCHANGED <<printed, outcome>>
              ELSE IF attempts_remain(attempt, max_retries)
              THEN /\ pc' = "fix"
                   /\ printed' = Append(printed,
                         [level |-> "WARN", what |-> "JSON parse failed, retrying",
                          file |-> filename, n |-> attempt + 1])
                   /\ UNCHANGED <<sections, idx, outcome>>
              ELSE /\ pc' = "idle"
                   /\ outcome' = "failed"
                   /\ printed' = Append(printed,
                         [level |-> "ERROR", what |-> "Failed to parse AI JSON",
                          file |-> filename, n |-> 0])
                   /\ UNCHANGED <<sections, idx>>
    /\ UNCHANGED <<collection, clock, handled, caller, filename, text, max_retries,
                   raw, attempt, calls, replies, tried, base, helperVars>>
    /\ UNCHANGED previous

\* the fix call given the raw response instead of the candidate
fix_returns_given_raw(response) ==
    /\ pc = "fix"
    /\ calls' = Append(calls, [mode |-> "fix", data |-> raw])
    /\ raw' = call_model(response)
    /\ replies' = Append(replies, call_model(response))
    /\ attempt' = attempt + 1
    /\ pc' = "validate"
    /\ UNCHANGED <<collection, clock, handled, caller, filename, text, max_retries,
                   candidate, sections, idx, tried, printed, outcome, base,
                   helperVars>>
    /\ UNCHANGED previous

\* the fix call after which the for statement does not take the next attempt
fix_returns_same_attempt(response) ==
    /\ pc = "fix"
    /\ calls' = Append(calls, [mode |-> "fix", data |-> candidate])
    /\ raw' = call_model(response)
    /\ replies' = Append(replies, call_model(response))
    /\ pc' = "validate"
    /\ UNCHANGED <<collection, clock, handled, caller, filename, text, max_retries,
                   attempt, candidate, sections, idx, tried, printed, outcome, base,
                   helperVars>>
    /\ UNCHANGED previous

\* raw = call_model(candidate, fix_mode=True), the backend answering; the
\* for statement then takes the next attempt
fix_returns(response) ==
    /\ pc = "fix"
    /\ calls' = Append(calls, [mode |-> "fix", data |-> candidate])
    /\ raw' = call_model(response)
    /\ replies' = Append(replies, call_model(response))
    /\ attempt' = attempt + 1
    /\ pc' = "validate"
    /\ UNCHANGED <<collection, clock, handled, caller, filename, text, max_retries,
                   candidate, sections, idx, tried, printed, outcome, base,
                   helperVars>>
    /\ UNCHANGED previous

\* the fix request posted again after it raised
fix_raises_and_is_retried ==
    /\ pc = "fix"
    /\ calls' = Append(calls, [mode |-> "fix", data |-> candidate])
    /\ UNCHANGED <<collection, clock, handled, pc, caller, filename, text,
                   max_retries, raw, attempt, candidate, sections, idx, replies,
                   tried, printed, outcome, base, helperVars>>
    /\ UNCHANGED previous

\* raw = call_model(candidate, fix_mode=True), the request raising
fix_raises ==
    /\ pc = "fix"
    /\ calls' = Append(calls, [mode |-> "fix", data |-> candidate])
    /\ Raise(printed)
    /\ UNCHANGED <<collection, clock, handled, caller, filename, text, max_retries,
                   raw, attempt, candidate, sections, idx, replies, tried, base,
                   helperVars>>

(***************************************************************************)
(* The insert loop.                                                        *)
(***************************************************************************)
EmptyString == JStr(<<>>)

EmptyList == JArr(<<>>)

Key(word) ==
    CASE word = "title"   -> <<"t", "i", "t", "l", "e">>
      [] word = "summary" -> <<"s", "u", "m", "m", "a", "r", "y">>
      [] word = "tags"    -> <<"t", "a", "g", "s">>
      [] word = "content" -> <<"c", "o", "n", "t", "e", "n", "t">>

\* dict.get(key) with the default left out: None for a missing key
get_without_default(section, word, default) ==
    LET at == {i \in 1..Len(section.a) : section.a[i].k = Key(word)}
    IN  IF at = {} THEN JNull ELSE section.a[Min(at)].v

\* dict.get(key, default)
get(section, word, default) ==
    LET at == {i \in 1..Len(section.a) : section.a[i].k = Key(word)}
    IN  IF at = {} THEN default ELSE section.a[Min(at)].v

\* whether section.get exists: only a dict has the method
HasGet(section) == section.t = "obj"

\* the document process_text builds for one section
Record(name, section, now) ==
    [filename  |-> name,
     title     |-> get(section, "title", EmptyString),
     summary   |-> get(section, "summary", EmptyString),
     tags      |-> get(section, "tags", EmptyList),
     original  |-> get(section, "content", EmptyString),
     timestamp |-> now]

\* the loop storing each document in front of the ones it stored before
insert_one_returns_in_front ==
    /\ pc = "insert"
    /\ idx <= Len(sections)
    /\ HasGet(sections[idx])
    /\ collection' = SubSeq(collection, 1, base)
                        \o <<Record(filename, sections[idx], clock)>>
                        \o SubSeq(collection, base + 1, Len(collection))
    /\ clock' = clock + 1
    /\ idx' = idx + 1
    /\ tried' = Append(tried, [i |-> idx, ok |-> TRUE])
    /\ UNCHANGED <<handled, pc, caller, filename, text, max_retries, raw, attempt,
                   candidate, sections, calls, replies, printed, outcome, base,
                   helperVars>>
    /\ UNCHANGED previous

\* one turn of `for section in sections` with insert_one storing the document
insert_one_returns ==
    /\ pc = "insert"
    /\ idx <= Len(sections)
    /\ HasGet(sections[idx])
    /\ collection' = Append(collection, Record(filename, sections[idx], clock))
    /\ clock' = clock + 1
    /\ idx' = idx + 1
    /\ tried' = Append(tried, [i |-> idx, ok |-> TRUE])
    /\ UNCHANGED <<handled, pc, caller, filename, text, max_retries, raw, attempt,
                   candidate, sections, calls, replies, printed, outcome, base,
                   helperVars>>
    /\ UNCHANGED previous

\* the loop with the error of insert_one caught per document: it goes on
insert_one_raises_loop_continues ==
    /\ pc = "insert"
    /\ idx <= Len(sections)
    /\ HasGet(sections[idx])
    /\ tried' = Append(tried, [i |-> idx, ok |-> FALSE])
    /\ idx' = idx + 1
    /\ UNCHANGED <<collection, clock, handled, pc, caller, filename, text,
                   max_retries, raw, attempt, candidate, sections, calls, replies,
                   printed, outcome, base, helperVars>>
    /\ UNCHANGED previous

\* one turn of the loop with insert_one raising
insert_one_raises ==
    /\ pc = "insert"
    /\ idx <= Len(sections)
    /\ HasGet(sections[idx])
    /\ tried' = Append(tried, [i |-> idx, ok |-> FALSE])
    /\ Raise(printed)
    /\ UNCHANGED <<collection, clock, handled, caller, filename, text, max_retries,
                   raw, attempt, candidate, sections, idx, calls, replies, base,
                   helperVars>>

\* one turn of the loop on a section that has no get: AttributeError
section_get_raises ==
    /\ pc = "insert"
    /\ idx <= Len(sections)
    /\ ~HasGet(sections[idx])
    /\ Raise(printed)
    /\ UNCHANGED <<collection, clock, handled, caller, filename, text, max_retries,
                   raw, attempt, candidate, sections, idx, calls, replies, tried,
                   base, helperVars>>

\* the loop is over: the INFO line, and process_text returns
process_text_returns ==
    /\ pc = "insert"
    /\ idx > Len(sections)
    /\ pc' = "idle"
    /\ outcome' = "done"
    /\ printed' = Append(printed, [level |-> "INFO", what |-> "Processed",
                                   file |-> filename, n |-> Len(sections)])
    /\ UNCHANGED <<collection, clock, handled, caller, filename, text, max_retries,
                   raw, attempt, candidate, sections, idx, calls, replies, tried,
                   base, helperVars>>
    /\ UNCHANGED previous

(***************************************************************************)
(* The helpers on their own: strip_code_fences, extract_balanced_block and *)
(* extract_first_json applied to a text.  The texts are every sequence of  *)
(* at most MaxTextLen characters of HelperAlphabet, the answers of the     *)
(* backend above, and the samples below.                                   *)
(***************************************************************************)
\* the longest text that is enumerated character by character
MaxTextLen == 4

HelperAlphabet == {"[", "]", "{", "}", "\"", "'", "\\", "a"}

ShortTexts == UNION {[1..n -> HelperAlphabet] : n \in 0..MaxTextLen}

\* an object whose only value is an array
NestedArrayObject ==
    <<"{", "\"", "\"", ":", "[", "]", "}">>

\* brackets and an escaped quote inside strings, prose around
BracketsInStrings ==
    <<"a", " ", "[", "\"", "]", "\\", "\"", "[", "\"", ",", " ", "{", "\"", "}", "\"", ":", " ", "\"", "{", "\"", "}", "]", " ", "b">>

\* a string that never closes, so neither does the array
UnclosedString ==
    <<"[", "\"", "]">>

\* an object that never closes around a closed array
UnclosedObject ==
    <<"x", " ", "{", "\"", "a", "\"", ":", " ", "[", "1", ",", " ", "2", "]">>

\* an object whose string value holds an array
ArrayInString ==
    <<"{", "\"", "a", "\"", ":", "\"", "[", "1", "]", "\"", "}">>

\* two fences, the first tagged in capitals
FencedUpper ==
    <<Backtick, Backtick, Backtick, "J", "S", "O", "N", " ", "{", "\"", "a", "\"", ":", "1", "}", Backtick, Backtick, Backtick, " ", Backtick, Backtick, Backtick, "[", "2", "]", Backtick, Backtick, Backtick>>

\* runs of four backticks
LongFence ==
    <<Backtick, Backtick, Backtick, Backtick, "[", "1", "]", Backtick, Backtick, Backtick, Backtick>>

Samples ==
    Responses \cup
    { UnclosedArray,
      NestedArrayObject,
      BracketsInStrings,
      UnclosedString,
      UnclosedObject,
      ArrayInString,
      FencedUpper,
      LongFence }

\* the longest text of fence characters that is enumerated
MaxFenceLen == 7

FenceAlphabet == {Backtick, " ", "a"}

\* every text of at most MaxFenceLen backticks, blanks and letters: fences
\* that close and fences that do not, runs of more than three backticks
FenceTexts == UNION {[1..n -> FenceAlphabet] : n \in 0..MaxFenceLen}

\* the longest content and the longest rest of a tagged fence
MaxPartLen == 2

FenceParts == UNION {[1..n -> FenceAlphabet] : n \in 0..MaxPartLen}

Tags == { <<"j", "s", "o", "n">>, <<"J", "S", "O", "N">>, <<"J", "s", "o", "n">> }

\* a fence tagged json in some letter case, its content, its close, a rest
TaggedTexts ==
    { Fence \o tag \o ws \o part \o Fence \o rest :
        tag \in Tags, ws \in {<<>>, <<"\n">>}, part \in FenceParts, rest \in FenceParts }

Texts == ShortTexts \cup Samples \cup FenceTexts \cup TaggedTexts

Brackets == {"[", "{"}

Closer(open_ch) == IF open_ch = "[" THEN "]" ELSE "}"

InitHelpers ==
    /\ InitProc
    /\ input \in Texts
    /\ output = NoOutput

\* strip_code_fences(input)
call_strip_code_fences ==
    /\ output = NoOutput
    /\ output' = [fn |-> "strip_code_fences", res |-> strip_code_fences(input)]
    /\ UNCHANGED <<procVars, input>>

\* extract_balanced_block(input, open_ch, close_ch) for one kind of bracket
call_extract_balanced_block(open_ch) ==
    /\ output = NoOutput
    /\ output' = [fn |-> open_ch,
                  res |-> extract_balanced_block(input, open_ch, Closer(open_ch))]
    /\ UNCHANGED <<procVars, input>>

\* extract_first_json(input)
call_extract_first_json ==
    /\ output = NoOutput
    /\ output' = [fn |-> "extract_first_json", res |-> extract_first_json(input)]
    /\ UNCHANGED <<procVars, input>>

NextHelpers ==
    \/ call_strip_code_fences
    \/ \E open_ch \in Brackets : call_extract_balanced_block(open_ch)
    \/ call_extract_first_json

SpecHelpers == InitHelpers /\ [][NextHelpers]_vars

Next ==
    \/ \E event \in Events : on_created_ignored(event)
    \/ \E event \in Events : on_created_unreadable(event)
    \/ \E event \in Events : on_created_read(event)
    \/ \E retries \in 0..MaxRetries : process_text_called(retries)
    \/ \E response \in Responses : generate_returns(response)
    \/ generate_raises
    \/ validate
    \/ \E response \in FixResponses : fix_returns(response)
    \/ fix_raises
    \/ insert_one_returns
    \/ insert_one_raises
    \/ section_get_raises
    \/ process_text_returns

Spec == Init /\ [][Next]_vars

\* a call of process_text is in progress
Running == pc \in {"generate", "validate", "fix", "insert"}

\* what a step of a call in progress does to pc and idx: the interpreter
\* goes on to the statement that follows, a request ending with a response
\* or with an exception
Advance ==
    /\ Running
    /\ pc' \in {"validate", "fix", "insert", "idle"}
    /\ idx' \in {idx, idx + 1, 1}

\* Spec with the interpreter going on with a call that has begun: from a
\* call in progress only its own steps are possible, and each of them
\* changes pc or idx
SpecLive == Spec /\ WF_<<pc, idx>>(Advance)

(***************************************************************************)
(* Properties.                                                             *)
(***************************************************************************)
\* a run of process_text is over
RunEnded == pc = "idle" /\ outcome \in {"done", "failed", "error", "raised"}

\* the number of documents this run has inserted
Inserted == Len(collection) - base

\* the retry loop cannot parse what it extracts from response r
Unparsable(r) == ~json_loads(Candidate(r)).ok

\* r is one JSON object and nothing else
IsBareObject(r) == json_loads(r).ok /\ json_loads(r).v.t = "obj"

\* C1: when the generate-mode response is a bare JSON object, process_text
\* makes no fix-mode call, takes the object as the only section and, when it
\* returns, has inserted exactly one Record, which carries the object's fields.
C1_BareObjectGivesOneRecord ==
    (Len(replies) >= 1 /\ IsBareObject(replies[1])) =>
        /\ Len(calls) = 1
        /\ pc # "fix"
        /\ pc = "insert" => sections = <<json_loads(replies[1]).v>>
        /\ (pc = "idle" /\ outcome = "done") =>
              /\ Inserted = 1
              /\ collection[base + 1] =
                    Record(filename, json_loads(replies[1]).v,
                           collection[base + 1].timestamp)

\* C2: one call of process_text posts at most max_retries + 1 requests, the
\* first in generate mode and the others in fix mode; it posts exactly
\* max_retries + 1 when every one of them returned a response that does not
\* parse (stated as: a run that ended with every response in and fewer
\* requests than that had a response that parsed); a call from the handler,
\* which uses the default, posts at most 2.
C2_CallBound ==
    /\ Len(calls) <= max_retries + 1
    /\ \A i \in 1..Len(calls) : calls[i].mode = IF i = 1 THEN "generate" ELSE "fix"
    /\ (RunEnded /\ Len(replies) = Len(calls) /\ Len(calls) # max_retries + 1)
       => \E i \in 1..Len(replies) : ~Unparsable(replies[i])
    /\ caller = "handler" => Len(calls) <= DefaultMaxRetries + 1

\* a run with the largest max_retries in which every response failed to parse
C2_Witness ==
    /\ RunEnded
    /\ max_retries = MaxRetries
    /\ Len(replies) = MaxRetries + 1
    /\ \A i \in 1..Len(replies) : Unparsable(replies[i])

(***************************************************************************)
(* The balanced block as section 4.2 of the spec describes it, by the      *)
(* string literals of the text rather than by a scan of its characters: a  *)
(* literal opens at a quote character outside any literal and closes at    *)
(* the next same quote character that an even number of backslashes        *)
(* precedes; the depth at a position counts the brackets outside literals. *)
(***************************************************************************)
\* the number of backslashes that stand directly before c, after the quote at o
BackslashRun(t, o, c) == c - 1 - Max({j \in o..(c - 1) : t[j] # "\\"})

\* the index at which the literal opened at o closes, Len(t) + 1 if it never does
StringEnd(t, o) ==
    LET ends == {c \in (o + 1)..Len(t) : t[c] = t[o] /\ BackslashRun(t, o, c) % 2 = 0}
    IN  IF ends = {} THEN Len(t) + 1 ELSE Min(ends)

\* the positions at or after from that lie in a string literal, quotes included
RECURSIVE StringSpans(_, _)
StringSpans(t, from) ==
    LET opens == {o \in from..Len(t) : t[o] \in Quotes}
    IN  IF opens = {} THEN {}
        ELSE LET o == Min(opens)
                 c == StringEnd(t, o)
             IN  {k \in o..Len(t) : k <= c} \cup StringSpans(t, c + 1)

\* open brackets minus close brackets among the positions start..i outside literals
DepthAt(t, start, i, open_ch, close_ch, inside) ==
    Cardinality({k \in start..i : k \notin inside /\ t[k] = open_ch})
      - Cardinality({k \in start..i : k \notin inside /\ t[k] = close_ch})

\* the index of the bracket that closes the first open_ch of t, 0 when t has
\* no open_ch or the depth never returns to zero
MatchingClose(t, open_ch, close_ch) ==
    LET start == find(t, open_ch)
    IN  IF start = 0 THEN 0
        ELSE LET inside == StringSpans(t, start)
                 closes == {i \in start..Len(t) :
                              /\ i \notin inside
                              /\ t[i] = close_ch
                              /\ DepthAt(t, start, i, open_ch, close_ch, inside) = 0}
             IN  IF closes = {} THEN 0 ELSE Min(closes)

\* the first open_ch of t is there and never closes
Unclosed(t, open_ch) ==
    find(t, open_ch) # 0 /\ MatchingClose(t, open_ch, Closer(open_ch)) = 0

BracketChars == {"[", "]", "{", "}"}

BracketsAt(t) == {i \in 1..Len(t) : t[i] \in BracketChars}

\* the text from its first bracket character through its last
Block(t) == SubSeq(t, Min(BracketsAt(t)), Max(BracketsAt(t)))

\* t is one well-formed array or object with bracket-free prose around it
SingleBlock(t) ==
    /\ BracketsAt(t) # {}
    /\ t[Min(BracketsAt(t))] \in Brackets
    /\ json_loads(Block(t)).ok

\* C3: for a text that holds one well-formed array or object between
\* bracket-free prose, extract_first_json returns exactly that value's text.
C3_ExtractorReturnsBlock ==
    (output.fn = "extract_first_json" /\ SingleBlock(input)) => output.res = Block(input)

\* what extract_first_json scans: the sanitized text without leading whitespace
Cleaned(t) == lstrip(strip_code_fences(t))

\* C8 as claimed: when the outermost bracket of the text never closes,
\* extract_first_json reports no match.
C8_OutermostUnclosedGivesNoMatch ==
    (/\ output.fn = "extract_first_json"
     /\ BracketsAt(Cleaned(input)) # {}
     /\ \E b \in Brackets :
           /\ find(Cleaned(input), b) = Min(BracketsAt(Cleaned(input)))
           /\ Unclosed(Cleaned(input), b))
    => output.res = None

\* C8 as amended: extract_balanced_block reports no match when the first
\* bracket of its kind never closes, and what it returns otherwise runs from
\* that bracket through its matching close; extract_first_json reports no
\* match when the first bracket of each kind present never closes.
C8_UnclosedGivesNoMatch ==
    /\ output.fn \in Brackets =>
          LET m == MatchingClose(input, output.fn, Closer(output.fn))
          IN  output.res = IF m = 0 THEN None
                           ELSE SubSeq(input, find(input, output.fn), m)
    /\ (/\ output.fn = "extract_first_json"
        /\ \A b \in Brackets : MatchingClose(Cleaned(input), b, Closer(b)) = 0)
       => output.res = None

\* an unclosed bracket followed by its closing character inside a string literal
C8_Witness ==
    /\ output.fn \in Brackets
    /\ Unclosed(input, output.fn)
    /\ \E i \in 1..Len(input) : i > find(input, output.fn) /\ input[i] = Closer(output.fn)
    /\ output.res = None

\* the last line printed
LastLine == printed[Len(printed)]

FailedToProcess == [level |-> "ERROR", what |-> "Failed to process", file |-> filename, n |-> 0]

FailedToParse == [level |-> "ERROR", what |-> "Failed to parse AI JSON", file |-> filename, n |-> 0]

\* C4: when a run of process_text is over, it has inserted either no Record
\* or one Record for every parsed section, never a strict non-empty prefix.
C4_AllSectionsOrNone == RunEnded => Inserted \in {0, Len(sections)}

Exhausted ==
    /\ Len(replies) = max_retries + 1
    /\ \A i \in 1..Len(replies) : Unparsable(replies[i])

\* the handler can take a creation event of a readable .txt file
CanHandleNextFile ==
    ENABLED on_created_read([src_path |-> NotePath, is_directory |-> FALSE,
                             readable |-> TRUE])

\* C6: once max_retries + 1 responses have come and none parses, the pass
\* that finds the last one unparsable ends the run as failed: no Record of
\* this file is inserted, no further request is posted, the parse failure is
\* the last line printed, and the handler is free to take the next file.
C6_ExhaustedRepairsFail ==
    /\ (pc # "validate" /\ Exhausted) =>
          /\ pc = "idle"
          /\ outcome = "failed"
          /\ Inserted = 0
          /\ tried = <<>>
          /\ Len(calls) = max_retries + 1
          /\ LastLine = FailedToParse
          /\ handled < MaxEvents => CanHandleNextFile
    /\ outcome = "failed" => Exhausted

\* a file of the handler failed this way with an event still to come
C6_Witness ==
    /\ outcome = "failed"
    /\ caller = "handler"
    /\ handled < MaxEvents

\* C7: a request that raises is the last request of its run: it is not
\* posted again, no Record of the file is inserted, and the exception
\* reaches the handler, which prints the failure of that file.
C7_TransportErrorEndsTheRun ==
    /\ Len(calls) <= Len(replies) + 1
    /\ Len(calls) = Len(replies) + 1 =>
          /\ pc = "idle"
          /\ outcome = IF caller = "handler" THEN "error" ELSE "raised"
          /\ Inserted = 0
          /\ tried = <<>>
          /\ caller = "handler" => LastLine = FailedToProcess

\* the fix request of a file of the handler raised
C7_Witness ==
    /\ caller = "handler"
    /\ Len(calls) = 2
    /\ Len(replies) = 1
    /\ calls[2].mode = "fix"

RecordFields == {"filename", "title", "summary", "tags", "original", "timestamp"}

HasKey(section, word) == \E i \in 1..Len(section.a) : section.a[i].k = Key(word)

ValueOf(section, word) ==
    section.a[CHOOSE i \in 1..Len(section.a) : section.a[i].k = Key(word)].v

\* the field of a Record that a section with or without the key must give
Expected(section, word, default) ==
    IF HasKey(section, word) THEN ValueOf(section, word) ELSE default

\* C9: every Record in the collection has the six fields, and the Record of
\* a section takes each of title, summary, tags, original from the section's
\* title, summary, tags, content, with the empty string, or for tags the
\* empty sequence, when the section lacks the key.
C9_RecordsComplete ==
    /\ \A k \in 1..Len(collection) : DOMAIN collection[k] = RecordFields
    /\ Inserted <= Len(sections)
    /\ \A k \in 1..Inserted :
          /\ collection[base + k].filename = filename
          /\ collection[base + k].title = Expected(sections[k], "title", EmptyString)
          /\ collection[base + k].summary = Expected(sections[k], "summary", EmptyString)
          /\ collection[base + k].tags = Expected(sections[k], "tags", EmptyList)
          /\ collection[base + k].original = Expected(sections[k], "content", EmptyString)

\* a Record inserted for a section that has a title and nothing else
C9_Witness ==
    \E k \in 1..Inserted :
        /\ HasKey(sections[k], "title")
        /\ ~HasKey(sections[k], "tags")
        /\ ~HasKey(sections[k], "summary")
        /\ ~HasKey(sections[k], "content")
        /\ collection[base + k].tags = EmptyList
        /\ collection[base + k].summary = EmptyString

IsString(v) == v.t = "str"

IsStringList(v) == v.t = "arr" /\ \A i \in 1..Len(v.a) : v.a[i].t = "str"

\* C10: every Record in the collection has a string title, summary and
\* original and a tags value that is a sequence of strings.
C10_RecordsAreSectionShaped ==
    \A k \in 1..Len(collection) :
        /\ IsString(collection[k].title)
        /\ IsString(collection[k].summary)
        /\ IsString(collection[k].original)
        /\ IsStringList(collection[k].tags)

\* the names of the files of the events
NoteName == <<"n", "o", "t", "e", ".", "t", "x", "t">>

UpperName == <<"B", ".", "T", "X", "T">>

MixedName == <<"c", ".", "T", "x", "t">>

\* what json.loads makes of the candidate of the last response
LastParse ==
    IF replies = <<>> THEN DecodeError
    ELSE json_loads(Candidate(replies[Len(replies)]))

\* the last response came and its candidate, parsed to r, was accepted
ParsedLast(r) ==
    /\ replies # <<>>
    /\ Len(replies) = Len(calls)
    /\ pc \notin {"validate", "fix"}
    /\ r.ok

AllObjects(secs) == \A k \in 1..Len(secs) : secs[k].t = "obj"

NoInsertFailed == \A k \in 1..Len(tried) : tried[k].ok

Processed(k) == [level |-> "INFO", what |-> "Processed", file |-> filename, n |-> k]

\* the Record of the section of FencedArray, whatever its timestamp
IntroRecord(now) ==
    [filename  |-> NoteName,
     title     |-> JStr(<<"I", "n", "t", "r", "o">>),
     summary   |-> JStr(<<"s">>),
     tags      |-> JArr(<<JStr(<<"a">>)>>),
     original  |-> JStr(<<"I", "n", "t", "r", "o", ".">>),
     timestamp |-> now]

\* C11: when the candidate parses to k section objects and every insert_one
\* returns, the run inserts exactly k Records, the k-th from the k-th section
\* with the basename of the file as filename and title, summary, tags,
\* original taken from title, summary, tags, content, and the INFO line
\* counts k; the response [] gives no Record, the count 0 and no fix call;
\* the fenced one-element array gives the one Record of its section.
C11_SuccessfulParseInsertsAll ==
    \A r \in {LastParse} :
    /\ ParsedLast(r) =>
          /\ sections = Sections(r.v)
          /\ (AllObjects(sections) /\ NoInsertFailed) =>
                /\ Inserted = Len(tried)
                /\ \A k \in 1..Inserted :
                      /\ tried[k].i = k
                      /\ collection[base + k] =
                            Record(filename, sections[k], collection[base + k].timestamp)
                      /\ collection[base + k].title = Expected(sections[k], "title", EmptyString)
                      /\ collection[base + k].original = Expected(sections[k], "content", EmptyString)
                /\ pc = "idle" =>
                      /\ outcome = "done"
                      /\ Inserted = Len(sections)
                      /\ LastLine = Processed(Len(sections))
    /\ outcome = "done" => (ParsedLast(r) /\ AllObjects(sections) /\ NoInsertFailed)
    /\ (Running \/ RunEnded) =>
          filename \in (IF caller = "handler" THEN {NoteName, UpperName} ELSE {NoteName})
    /\ (replies # <<>> /\ replies[1] = EmptyArray) =>
          /\ Len(calls) = 1
          /\ pc # "fix"
          /\ Inserted = 0
          /\ pc = "idle" => (outcome = "done" /\ LastLine = Processed(0))
    /\ (replies # <<>> /\ replies[1] = FencedArray) =>
          /\ Len(calls) = 1
          /\ pc # "fix"
          /\ (pc = "idle" /\ NoInsertFailed /\ filename = NoteName) =>
                /\ Inserted = 1
                /\ collection[base + 1] = IntroRecord(collection[base + 1].timestamp)

\* a run that stored the two sections of its response, a Record of an
\* earlier file before them
C11_Witness ==
    /\ outcome = "done"
    /\ base > 0
    /\ Inserted = 2
    /\ collection[base + 1].title # collection[base + 2].title
    /\ LastLine = Processed(2)

\* Truncated from its first opening bracket on
TruncatedFromBracket ==
    <<"[", "{", "\"", "t", "i", "t", "l", "e", "\"", ":", " ", "\"", "X", "\"">>

\* the run whose generate-mode response is Truncated, with one repair allowed
TruncatedRun ==
    /\ replies # <<>>
    /\ replies[1] = Truncated
    /\ max_retries = 1

\* C12 as claimed: the fix-mode call that follows the response Truncated is
\* given the text from the first opening bracket on.
C12_FixGivenTextFromBracket ==
    (TruncatedRun /\ Len(calls) >= 2) => calls[2].data = TruncatedFromBracket

\* C12 as amended: neither bracket of Truncated closes, so no block is
\* extracted and the candidate is the whole trimmed response; with
\* max_retries = 1 exactly one fix-mode call follows and that text is its
\* data.  A fix-mode call is given the trimmed raw response whenever
\* extract_first_json found no balanced block, brackets or not.
C12_FixGivenWholeResponse ==
    /\ TruncatedRun =>
          /\ Len(calls) <= 2
          /\ (pc # "validate" \/ Len(calls) = 2) => (pc = "fix" \/ Len(calls) = 2)
          /\ Len(calls) = 2 =>
                /\ calls[2] = [mode |-> "fix", data |-> Truncated]
                /\ extract_first_json(replies[1]) = None
                /\ BracketsAt(replies[1]) # {}
    /\ \A i \in 2..Len(calls) :
          extract_first_json(replies[i - 1]) = None => calls[i].data = strip(replies[i - 1])

\* the fix-mode call after Truncated has been posted by a file of the handler
C12_Witness ==
    /\ TruncatedRun
    /\ caller = "handler"
    /\ Len(calls) = 2
    /\ calls[2].data = Truncated

\* t holds an opening fence and, after it, a closing one
HasFence(t) ==
    \E p, q \in 1..Len(t) : StartsAt(t, p, Fence) /\ StartsAt(t, q, Fence) /\ q >= p + 3

\* C13: strip_code_fences applied to its own result gives that result again:
\* a text without a closed fence is returned as it is, and what is taken out
\* of a closed fence holds no fence any more.
C13_SanitizerIdempotent ==
    output.fn = "strip_code_fences" =>
        /\ strip_code_fences(output.res) = output.res
        /\ ~HasFence(input) => output.res = input
        /\ HasFence(input) => ~HasFence(output.res)

\* a text with two closed fences, or a run of more than three backticks,
\* whose content was taken out and still holds a backtick
C13_Witness ==
    /\ output.fn = "strip_code_fences"
    /\ HasFence(input)
    /\ \E p \in 1..Len(input) : StartsAt(input, p, <<Backtick, Backtick, Backtick, Backtick>>)
    /\ output.res # <<>>
    /\ \E i \in 1..Len(output.res) : output.res[i] = Backtick

\* the ways a file of the handler fails
Failures == {"unreadable", "error", "failed"}

\* C14: however an event ends, on_created returns: an exception of
\* process_text or of reading the file never leaves the handler, and once
\* the event is over, while events are left, the handler takes the creation
\* event of a readable .txt file, whose run makes its own generate-mode call
\* on its own text.
C14_FailureLeavesWatchRunning ==
    /\ caller = "handler" => outcome # "raised"
    /\ pc \in {"idle", "generate", "validate", "fix", "insert"}
    /\ (pc \notin {"generate", "validate", "fix", "insert"} /\ handled < MaxEvents) =>
          CanHandleNextFile
    /\ outcome \in Failures => pc = "idle"
    /\ pc = "generate" => calls = <<>>
    /\ pc \in {"validate", "fix", "insert"} =>
          (calls # <<>> /\ calls[1] = [mode |-> "generate", data |-> text])

\* after an event that failed with a Record already stored, the next file of
\* the handler has had the response to its generate-mode call
C14_Witness ==
    /\ handled = 2
    /\ previous = "error"
    /\ base = 1
    /\ caller = "handler"
    /\ pc = "validate"
    /\ Len(calls) = 1

\* the path ends in .txt in some letter case
EndsInTxt(path) ==
    /\ Len(path) >= 4
    /\ path[Len(path) - 3] = "."
    /\ path[Len(path) - 2] \in {"t", "T"}
    /\ path[Len(path) - 1] \in {"x", "X"}
    /\ path[Len(path)] \in {"t", "T"}

\* on_created ignores the event
Ignored(event) == event.is_directory \/ ~EndsInTxt(event.src_path)

\* the handler is free and the behaviour has events left
AwaitingEvent == pc = "idle" /\ handled < MaxEvents

\* what holds in every state for C15
C15_Ignoring ==
    /\ AwaitingEvent =>
          \A event \in Events :
              /\ ENABLED on_created_ignored(event) <=> Ignored(event)
              /\ (ENABLED on_created_read(event) \/ ENABLED on_created_unreadable(event))
                    <=> ~Ignored(event)
    /\ outcome = "ignored" =>
          (pc = "idle" /\ calls = <<>> /\ replies = <<>> /\ tried = <<>> /\ Inserted = 0)
    /\ (caller = "handler" /\ pc # "idle") => filename \in {NoteName, UpperName}
    /\ outcome = "unreadable" => filename \in {NoteName, MixedName}

\* what the step of an ignored event leaves alone
C15_IgnoredStep ==
    (handled' # handled /\ outcome' = "ignored") =>
        /\ collection' = collection
        /\ clock' = clock
        /\ text' = text
        /\ pc' = "idle"
        /\ calls' = <<>>
        /\ printed' = <<>>

\* C15: on_created ignores exactly the events of directories and of paths
\* that do not end in .txt in some letter case; the step of an ignored event
\* reads no file, posts no request, inserts nothing and leaves the
\* collection as it was; the other events are read and processed.
C15_OnlyTxtFilesProcessed == []C15_Ignoring /\ [][C15_IgnoredStep]_vars

\* an event ignored after a file whose Records are in the collection
C15_Witness ==
    /\ previous = "done"
    /\ outcome = "ignored"
    /\ collection # <<>>
    /\ calls = <<>>

\* what holds in every state for C16: the Records of the running file are
\* the last ones of the collection, in the order of their timestamps, and
\* a run inserts only after its last model call
C16_Order ==
    /\ base <= Len(collection)
    /\ \A k \in 1..(Len(collection) - 1) :
          collection[k].timestamp < collection[k + 1].timestamp
    /\ \A k \in (base + 1)..Len(collection) : collection[k].filename = filename
    /\ pc \in {"generate", "validate", "fix"} => (tried = <<>> /\ Inserted = 0)

\* what every step keeps for C16: an event begins only when no run is in
\* progress; a request is posted and a Record is inserted only by the run in
\* progress, for its own file; a Record is appended after the ones stored
\* before, which stay as they are
C16_Step ==
    /\ handled' # handled => (pc = "idle" /\ handled' = handled + 1)
    /\ (handled' = handled /\ calls' # calls) =>
          /\ pc \in {"generate", "fix"}
          /\ Len(calls') = Len(calls) + 1
          /\ SubSeq(calls', 1, Len(calls)) = calls
    /\ collection' # collection =>
          /\ handled' = handled
          /\ pc = "insert"
          /\ base' = base
          /\ Len(collection') = Len(collection) + 1
          /\ SubSeq(collection', 1, Len(collection)) = collection
          /\ collection'[Len(collection')].filename = filename
    /\ pc' = "idle" => (collection' = collection /\ Len(calls') <= Len(calls) + 1)

\* C16: the files are processed one at a time in the order of their events:
\* every request and every insert of a file comes before the next event
\* begins, and the Records of an earlier event stand before those of a later
\* one in the collection.
C16_OneFileAtATime == []C16_Order /\ [][C16_Step]_vars

\* the second file has inserted a Record after a Record of the first, which
\* had another name
C16_Witness ==
    /\ handled = 2
    /\ base > 0
    /\ Inserted > 0
    /\ collection[base].filename # collection[base + 1].filename

\* the candidate of a response: the balanced block extract_first_json finds
\* in it, the trimmed response when it finds none
BestCandidate(r) ==
    LET block == extract_first_json(r)
    IN  IF block # None THEN block ELSE strip(r)

\* C17: the data of every fix-mode call is the candidate of the response
\* before it, the balanced block when one was extracted and the trimmed
\* response otherwise; the candidate a pending fix call will send is the one
\* the last pass computed, and the response of a call is the raw text of the
\* pass that follows it.
C17_Data ==
    /\ \A i \in 2..Len(calls) :
          /\ calls[i].mode = "fix"
          /\ calls[i].data = BestCandidate(replies[i - 1])
    /\ pc = "fix" => candidate = BestCandidate(replies[Len(replies)])
    /\ pc = "validate" => (replies # <<>> /\ raw = replies[Len(replies)])
    /\ Len(replies) <= Len(calls)

\* the step that makes a fix-mode call sends the candidate of the pass before
\* it, and the step that brings its response starts the next pass on it
C17_Step ==
    /\ (pc = "fix" /\ Len(calls') > Len(calls))
          => calls' = Append(calls, [mode |-> "fix", data |-> candidate])
    /\ (pc = "fix" /\ pc' = "validate")
          => (Len(replies') = Len(replies) + 1 /\ raw' = replies'[Len(replies')])

C17_FixGivenLastCandidate == []C17_Data /\ [][C17_Step]_vars

\* a fix-mode call was given a block cut out of the prose around it, and its
\* response is about to be validated
C17_Witness ==
    /\ pc = "validate"
    /\ Len(calls) = 2
    /\ Len(replies) = 2
    /\ calls[2].data # replies[1]
    /\ calls[2].data = <<"[", "x", "]">>
    /\ raw = replies[2]

\* the calls and passes of the retry loop still possible, then the turns of
\* the insert loop still to take
LoopLeft ==
    CASE pc = "generate" -> 2 * (max_retries + 1) + 1
      [] pc = "validate" -> 2 * (max_retries - attempt) + 1
      [] pc = "fix"      -> 2 * (max_retries - attempt)
      [] OTHER           -> 0

InsertsLeft == IF pc = "insert" THEN Len(sections) + 1 - idx ELSE 0

\* what holds in every state for C18
C18_Bounded ==
    /\ attempt \in 0..max_retries
    /\ Running <=> outcome = "running"
    /\ pc = "fix" => attempt < max_retries
    /\ pc = "insert" => idx \in 1..(Len(sections) + 1)
    /\ (pc = "idle" /\ handled > 0) =>
          outcome \in {"ignored", "unreadable", "done", "failed", "error", "raised"}

\* every step from a call in progress is a step of that call, which changes
\* pc or idx, and when it does not end the call it leaves less to do
C18_Decreases ==
    /\ Running => (Advance /\ <<pc, idx>>' # <<pc, idx>> /\ handled' = handled)
    /\ (Running /\ Running') =>
          \/ LoopLeft' < LoopLeft
          \/ LoopLeft' = LoopLeft /\ InsertsLeft' < InsertsLeft

\* C18: a call of process_text ends: the attempts stay within max_retries,
\* every step of the call leaves less to do, and the call reaches one of
\* done, failed or an exception, however the backend answers.
C18_Terminates ==
    /\ []C18_Bounded
    /\ [][C18_Decreases]_vars
    /\ (Running ~> RunEnded)

\* the longest call: every repair used, the last response stored as two Records
C18_Witness ==
    /\ outcome = "done"
    /\ max_retries = MaxRetries
    /\ attempt = MaxRetries
    /\ Len(calls) = MaxRetries + 1
    /\ Inserted = 2

\* the block of t that opens at its first open_ch, None when that bracket is
\* missing or never closes
BlockOf(t, open_ch) ==
    LET m == MatchingClose(t, open_ch, Closer(open_ch))
    IN  IF m = 0 THEN None ELSE SubSeq(t, find(t, open_ch), m)

\* C19: extract_first_json returns the balanced block that opens at the
\* first [ of the sanitized text whenever there is one, wherever that [
\* stands, in an enclosing object or in a string of it; it returns the block
\* of the first { only when there is none, and None when there is neither.
C19_ArrayPreferred ==
    output.fn = "extract_first_json" =>
        LET array == BlockOf(Cleaned(input), "[")
        IN  /\ array # None => output.res = array
            /\ array = None => output.res = BlockOf(Cleaned(input), "{")
            /\ (output.res # None /\ Head(output.res) = "{") => array = None

\* a balanced object whose first [ stands in a string literal: the array
\* inside the string is what came back
C19_Witness ==
    /\ output.fn = "extract_first_json"
    /\ Cleaned(input) # <<>>
    /\ Head(Cleaned(input)) = "{"
    /\ BlockOf(Cleaned(input), "{") = Cleaned(input)
    /\ find(Cleaned(input), "[") \in StringSpans(Cleaned(input), 1)
    /\ output.res # None
    /\ Head(output.res) = "["

\* for each response of the run, whether its candidate parses as JSON
ParsesAt == [i \in 1..Len(replies) |-> json_loads(Candidate(replies[i])).ok]

\* C20: the first request of a run is the generate-mode one, on the text of
\* the file; every request after it is a fix-mode one and follows a response
\* whose candidate did not parse; a response whose candidate parses, to
\* sections or to any other value, is the last of the run: no request
\* follows it; and a run that is over has made its generate-mode request.
C20_Order ==
    \A parses \in {ParsesAt} :
        /\ calls # <<>> => calls[1] = [mode |-> "generate", data |-> text]
        /\ \A i \in 2..Len(calls) : calls[i].mode = "fix" /\ ~parses[i - 1]
        /\ \A i \in 1..Len(replies) :
              parses[i] => (i = Len(replies) /\ Len(calls) = i /\ pc \in {"validate", "insert", "idle"})
        /\ pc = "fix" => ~parses[Len(replies)]
        /\ pc = "insert" => parses[Len(replies)]
        /\ (Running \/ RunEnded) => (pc = "generate" <=> calls = <<>>)

\* a request is made only by the generate step, as the first of its run, or
\* by the repair step, after the first
C20_Step ==
    Len(calls') > Len(calls) =>
        /\ Len(calls') = Len(calls) + 1
        /\ IF calls = <<>>
           THEN pc = "generate" /\ calls'[1].mode = "generate"
           ELSE pc = "fix" /\ calls'[Len(calls')].mode = "fix"

C20_CallOrder == []C20_Order /\ [][C20_Step]_vars

\* with a repair still allowed, the run ended after the response to its
\* first fix-mode call parsed to a number
C20_Witness ==
    /\ RunEnded
    /\ max_retries = 2
    /\ Len(calls) = 2
    /\ Len(replies) = 2
    /\ replies[2] = Scalar
    /\ calls[2].mode = "fix"

=============================================================================
